---- MODULE Spec2Model ----
(***************************************************************************)
(* Model of script.py: preprocess_data (the fold of PR and GHI CSV files   *)
(* into one table keyed by date) followed by generate_graph (date filter,  *)
(* 30-row moving average, budget curve and above-budget statistics).       *)
(*                                                                         *)
(* Numbers.  PR and GHI values are kept in tenths (73.9 % is 739).  A      *)
(* timestamp is the count of days since 2022-01-01.  A mean is the pair    *)
(* num/den of its sum and its number of observations, den = 0 being NaN.   *)
(* A budget value 73.9 * 0.992 ^ (days / 365.25) is kept as its exponent   *)
(* (a fraction) together with the floor of its value in tenths.            *)
(***************************************************************************)
EXTENDS Integers, Sequences, FiniteSets, TLC

VARIABLES pc, pr_left, ghi_left, cur, rows_left, data_dict, errors,
          last_pr, last_ghi, pr_supplied, ghi_supplied, df,
          start_date, end_date, df_plot, budget_start_date, years,
          points_above_budget, total_points, percentage_above

vars == <<pc, pr_left, ghi_left, cur, rows_left, data_dict, errors,
          last_pr, last_ghi, pr_supplied, ghi_supplied, df,
          start_date, end_date, df_plot, budget_start_date, years,
          points_above_budget, total_points, percentage_above>>

merge_vars == <<pr_left, ghi_left, cur, rows_left, data_dict, errors,
                last_pr, last_ghi, pr_supplied, ghi_supplied>>

graph_vars == <<start_date, end_date, df_plot, budget_start_date, years,
                points_above_budget, total_points, percentage_above>>

----------------------------------------------------------------------------
(* Bounds of the model. *)

\* CSV files found under one folder
MaxFiles == 2
\* data rows in one CSV file
MaxRows == 2
\* rows of a table handed directly to generate_graph
MaxTableRows == 3
\* rows of a long table (consecutive days) handed to generate_graph
MaxLongRows == 32

----------------------------------------------------------------------------
(* Missing values. *)

\* Python None: a field of a record that no row has written (line 41)
None == -2
\* the float NaN pandas gives an empty CSV cell, and None once in a DataFrame
NaN == -1
\* pandas NaT: the minimum of an empty datetime column
NaT == -3

isna(v) == v = NaN \/ v = None

----------------------------------------------------------------------------
(* Calendar: what pandas Timestamp arithmetic does on whole days. *)

CalendarYears == 2022 .. 2026

IsLeap(y) == (y % 4 = 0 /\ y % 100 # 0) \/ y % 400 = 0

DaysInYear(y) == IF IsLeap(y) THEN 366 ELSE 365

DaysInMonth(y, m) ==
    IF m = 2 THEN (IF IsLeap(y) THEN 29 ELSE 28)
    ELSE IF m \in {4, 6, 9, 11} THEN 30 ELSE 31

RECURSIVE DaysBeforeYear(_)
DaysBeforeYear(y) ==
    IF y <= 2022 THEN 0 ELSE DaysBeforeYear(y - 1) + DaysInYear(y - 1)

RECURSIVE DaysBeforeMonth(_, _)
DaysBeforeMonth(y, m) ==
    IF m <= 1 THEN 0 ELSE DaysBeforeMonth(y, m - 1) + DaysInMonth(y, m - 1)

\* pd.Timestamp(f'{y}-{m}-{d}')
Timestamp(y, m, d) == DaysBeforeYear(y) + DaysBeforeMonth(y, m) + d - 1

\* The days of the calendar years, as timestamps
CalendarDays == 0 .. DaysBeforeYear(2027) - 1

YearTable ==
    [t \in CalendarDays |->
        CHOOSE y \in CalendarYears :
            DaysBeforeYear(y) <= t /\ t < DaysBeforeYear(y) + DaysInYear(y)]

MonthTable ==
    [t \in CalendarDays |->
        CHOOSE m \in 1 .. 12 :
            /\ Timestamp(YearTable[t], m, 1) <= t
            /\ t < Timestamp(YearTable[t], m, 1) + DaysInMonth(YearTable[t], m)]

\* Timestamp.year
YearOf(t) == YearTable[t]

\* Timestamp.month
MonthOf(t) == MonthTable[t]

\* Timestamp.day
DayOf(t) == t - Timestamp(YearOf(t), MonthOf(t), 1) + 1

\* t + pd.DateOffset(years=1): same month and day, the day clipped to the month
AddOneYear(t) ==
    LET y == YearOf(t) + 1
        m == MonthOf(t)
        d == IF DayOf(t) > DaysInMonth(y, m) THEN DaysInMonth(y, m) ELSE DayOf(t)
    IN  Timestamp(y, m, d)

----------------------------------------------------------------------------
(* preprocess_data: the inputs. *)

\* Calendar days written in the Date column of the source files
MergeDays == {Timestamp(2024, 6, 30), Timestamp(2024, 7, 1)}

\* A raw Date cell is a string; two strings can write one calendar day:
\* "2024-07-01" (form "iso") and "2024-7-1" (form "short").
RawDates ==
    {[day |-> d, form |-> "iso"] : d \in MergeDays}
        \cup {[day |-> Timestamp(2024, 7, 1), form |-> "short"]}

\* PR cells: empty, 70.0, 74.5
PRCells == {NaN, 700, 745}
\* GHI cells: empty, 3.0
GHICells == {NaN, 30}

\* What reading one file can be: readable with both columns, not readable
\* (pd.read_csv raises), readable without the Date column, readable without
\* the value column (PR or GHI).
FileKinds == {"ok", "unreadable", "nodate", "novalue"}

\* History of the rows folded so far, by raw date: the value of the last row
\* that carried it, None while no row has
NoRows == [k \in RawDates |-> None]

----------------------------------------------------------------------------
(* preprocess_data: the fold. *)

\* pd.to_datetime on a raw Date cell: the string's calendar day
to_datetime(raw) == raw.day

NewRecord(date) == [Date |-> date, PR |-> None, GHI |-> None]

\* fold_pr_row with a fault: an empty cell does not overwrite a value
fold_pr_row_skip_empty(dd, date, pr_value) ==
    LET d1 == IF date \in DOMAIN dd THEN dd ELSE dd @@ (date :> NewRecord(date))
    IN  IF isna(pr_value) /\ ~isna(d1[date].PR) THEN d1
        ELSE [d1 EXCEPT ![date].PR = pr_value]

\* Lines 40-42: the record of the raw date is created on first sight, and
\* its PR is overwritten
fold_pr_row(dd, date, pr_value) ==
    LET d1 == IF date \in DOMAIN dd THEN dd ELSE dd @@ (date :> NewRecord(date))
    IN  [d1 EXCEPT ![date].PR = pr_value]

\* Lines 62-64: the same for GHI
fold_ghi_row(dd, date, ghi_value) ==
    LET d1 == IF date \in DOMAIN dd THEN dd ELSE dd @@ (date :> NewRecord(date))
    IN  [d1 EXCEPT ![date].GHI = ghi_value]

\* process_pr_row with a fault: the record is created before the PR column is
\* looked up, so a file without a PR column leaves records behind.
process_pr_row_create_first(dd, kind, date, pr_value) ==
    IF kind = "nodate" THEN [raised |-> TRUE, data_dict |-> dd]
    ELSE IF kind = "novalue"
         THEN [raised |-> TRUE,
               data_dict |-> IF date \in DOMAIN dd THEN dd
                             ELSE dd @@ (date :> NewRecord(date))]
         ELSE [raised |-> FALSE, data_dict |-> fold_pr_row(dd, date, pr_value)]

\* One iteration of the row loop of a PR file (lines 37-42): row['Date'] and
\* row['PR'] raise KeyError when the column is missing, before the mapping is
\* touched.
process_pr_row(dd, kind, date, pr_value) ==
    IF kind = "nodate" THEN [raised |-> TRUE, data_dict |-> dd]
    ELSE IF kind = "novalue" THEN [raised |-> TRUE, data_dict |-> dd]
    ELSE [raised |-> FALSE, data_dict |-> fold_pr_row(dd, date, pr_value)]

\* One iteration of the row loop of a GHI file (lines 59-64).
process_ghi_row(dd, kind, date, ghi_value) ==
    IF kind = "nodate" THEN [raised |-> TRUE, data_dict |-> dd]
    ELSE IF kind = "novalue" THEN [raised |-> TRUE, data_dict |-> dd]
    ELSE [raised |-> FALSE, data_dict |-> fold_ghi_row(dd, date, ghi_value)]

EmptyDict == [k \in {} |-> NewRecord(k)]

\* pd.read_csv(pr_file) and the start of the row loop (lines 33-37, 43-44)
ReadPRFile ==
    /\ pc = "pr_loop" /\ cur = "closed" /\ pr_left > 0
    /\ \E kind \in FileKinds, n \in 0 .. MaxRows :
        IF kind = "unreadable"
        THEN /\ errors' = errors + 1
             /\ pr_left' = pr_left - 1
             /\ UNCHANGED <<cur, rows_left>>
        ELSE IF n = 0
        THEN /\ pr_left' = pr_left - 1
             /\ UNCHANGED <<cur, rows_left, errors>>
        ELSE /\ cur' = kind
             /\ rows_left' = n
             /\ UNCHANGED <<pr_left, errors>>
    /\ UNCHANGED <<pc, ghi_left, data_dict, last_pr, last_ghi, pr_supplied,
                   ghi_supplied, df>>
    /\ UNCHANGED graph_vars

\* One row of the open PR file (lines 37-44)
FoldPRRow ==
    /\ pc = "pr_loop" /\ cur # "closed"
    /\ \E date \in RawDates, pr_value \in PRCells :
        LET r == process_pr_row(data_dict, cur, date, pr_value)
        IN  /\ data_dict' = r.data_dict
            /\ IF r.raised
               THEN /\ errors' = errors + 1
                    /\ cur' = "closed" /\ rows_left' = 0
                    /\ pr_left' = pr_left - 1
                    /\ UNCHANGED <<last_pr, pr_supplied>>
               ELSE /\ last_pr' = [last_pr EXCEPT ![date] = pr_value]
                    /\ pr_supplied' = IF isna(pr_value) THEN pr_supplied
                                      ELSE pr_supplied \cup {date.day}
                    /\ rows_left' = rows_left - 1
                    /\ cur' = IF rows_left = 1 THEN "closed" ELSE cur
                    /\ pr_left' = IF rows_left = 1 THEN pr_left - 1 ELSE pr_left
                    /\ UNCHANGED errors
    /\ UNCHANGED <<pc, ghi_left, last_ghi, ghi_supplied, df>>
    /\ UNCHANGED graph_vars

\* The PR loop is over; the GHI files are listed (lines 46-52)
StartGHI ==
    /\ pc = "pr_loop" /\ cur = "closed" /\ pr_left = 0
    /\ pc' = "ghi_loop"
    /\ UNCHANGED merge_vars
    /\ UNCHANGED df
    /\ UNCHANGED graph_vars

\* pd.read_csv(ghi_file) and the start of the row loop (lines 55-59, 65-66)
ReadGHIFile ==
    /\ pc = "ghi_loop" /\ cur = "closed" /\ ghi_left > 0
    /\ \E kind \in FileKinds, n \in 0 .. MaxRows :
        IF kind = "unreadable"
        THEN /\ errors' = errors + 1
             /\ ghi_left' = ghi_left - 1
             /\ UNCHANGED <<cur, rows_left>>
        ELSE IF n = 0
        THEN /\ ghi_left' = ghi_left - 1
             /\ UNCHANGED <<cur, rows_left, errors>>
        ELSE /\ cur' = kind
             /\ rows_left' = n
             /\ UNCHANGED <<ghi_left, errors>>
    /\ UNCHANGED <<pc, pr_left, data_dict, last_pr, last_ghi, pr_supplied,
                   ghi_supplied, df>>
    /\ UNCHANGED graph_vars

\* One row of the open GHI file (lines 59-66)
FoldGHIRow ==
    /\ pc = "ghi_loop" /\ cur # "closed"
    /\ \E date \in RawDates, ghi_value \in GHICells :
        LET r == process_ghi_row(data_dict, cur, date, ghi_value)
        IN  /\ data_dict' = r.data_dict
            /\ IF r.raised
               THEN /\ errors' = errors + 1
                    /\ cur' = "closed" /\ rows_left' = 0
                    /\ ghi_left' = ghi_left - 1
                    /\ UNCHANGED <<last_ghi, ghi_supplied>>
               ELSE /\ last_ghi' = [last_ghi EXCEPT ![date] = ghi_value]
                    /\ ghi_supplied' = IF isna(ghi_value) THEN ghi_supplied
                                       ELSE ghi_supplied \cup {date.day}
                    /\ rows_left' = rows_left - 1
                    /\ cur' = IF rows_left = 1 THEN "closed" ELSE cur
                    /\ ghi_left' = IF rows_left = 1 THEN ghi_left - 1 ELSE ghi_left
                    /\ UNCHANGED errors
    /\ UNCHANGED <<pc, pr_left, last_pr, pr_supplied, df>>
    /\ UNCHANGED graph_vars

----------------------------------------------------------------------------
(* preprocess_data: from the mapping to the table (lines 68-91). *)

\* pd.DataFrame(...) turns a None field into NaN
to_float(v) == IF v = None THEN NaN ELSE v

\* One row of the table: the Date converted, the columns Date, GHI, PR
TableRow(rec) ==
    [Date |-> to_datetime(rec.Date), GHI |-> to_float(rec.GHI),
     PR |-> to_float(rec.PR)]

\* df.sort_values('Date'): the orders of the records that are ascending by
\* converted Date.  The default sort is not stable, so equal dates may come
\* out in either order.
sort_values(dd) ==
    LET n == Cardinality(DOMAIN dd)
    IN  {o \in [1 .. n -> DOMAIN dd] :
            /\ \A i, j \in 1 .. n : i # j => o[i] # o[j]
            /\ \A i \in 1 .. n - 1 :
                   to_datetime(dd[o[i]].Date) <= to_datetime(dd[o[i + 1]].Date)}

\* Lines 68-91.  With no record at all the DataFrame has no column and
\* df['Date'] raises KeyError (line 70).
BuildTable ==
    /\ pc = "ghi_loop" /\ cur = "closed" /\ ghi_left = 0
    /\ IF DOMAIN data_dict = {}
       THEN /\ pc' = "raised_preprocess"
            /\ UNCHANGED df
       ELSE /\ pc' = "returned"
            /\ \E o \in sort_values(data_dict) :
                   df' = [i \in 1 .. Cardinality(DOMAIN data_dict) |->
                              TableRow(data_dict[o[i]])]
    /\ UNCHANGED merge_vars
    /\ UNCHANGED graph_vars

----------------------------------------------------------------------------
(* generate_graph. *)

\* 30-row window of the moving average (line 116)
Window == 30
\* min_periods of the moving average (line 116)
MinPeriods == 1
\* The budget year starts in July (line 140)
JulyMonth == 7
\* 73.9, in tenths (line 150)
InitialBudget == 739
\* 365.25 days a year, in hundredths of a day (line 149)
YearLength == 36525

\* Lines 107-111: the inclusive date filter; a bound of None is not applied
filter_rows(t, start, end) ==
    LET Keep(r) == /\ (start = None \/ r.Date >= start)
                   /\ (end = None \/ r.Date <= end)
    IN  SelectSeq(t, Keep)

\* window_start with a fault: a window of 31 rows
window_start_wide(i) == IF i - Window < 1 THEN 1 ELSE i - Window

\* rolling(window=30): the first row of the window that ends at row i
window_start(i) == IF i - Window + 1 < 1 THEN 1 ELSE i - Window + 1

\* pandas' sliding accumulator: a value enters (NaN is not an observation)
add_mean(st, v) ==
    IF isna(v) THEN st ELSE [sum |-> st.sum + v, nobs |-> st.nobs + 1]

\* pandas' sliding accumulator: a value leaves
remove_mean(st, v) ==
    IF isna(v) THEN st ELSE [sum |-> st.sum - v, nobs |-> st.nobs - 1]

\* The mean of the accumulator, NaN (den = 0) below min_periods observations
calc_mean(st) ==
    IF st.nobs >= MinPeriods /\ st.nobs > 0
    THEN [num |-> st.sum, den |-> st.nobs]
    ELSE [num |-> 0, den |-> 0]

RECURSIVE RollFrom(_, _, _, _)
RollFrom(x, i, st, out) ==
    IF i > Len(x) THEN out
    ELSE LET s1 == IF i > 1 /\ window_start(i) > window_start(i - 1)
                   THEN remove_mean(st, x[window_start(i) - 1])
                   ELSE st
             s2 == add_mean(s1, x[i])
         IN  RollFrom(x, i + 1, s2, Append(out, calc_mean(s2)))

\* Line 116: df_plot['PR'].rolling(window=30, min_periods=1).mean()
rolling_mean(x) == RollFrom(x, 1, [sum |-> 0, nobs |-> 0], <<>>)

\* Column minimum and maximum of Date (lines 136-137); NaT on no rows
MinDate(t) ==
    IF t = <<>> THEN NaT
    ELSE CHOOSE d \in {t[i].Date : i \in 1 .. Len(t)} :
             \A i \in 1 .. Len(t) : d <= t[i].Date

MaxDate(t) ==
    IF t = <<>> THEN NaT
    ELSE CHOOSE d \in {t[i].Date : i \in 1 .. Len(t)} :
             \A i \in 1 .. Len(t) : d >= t[i].Date

\* ref_year with a fault: only a month after July keeps the year
ref_year_after_july(first_date) ==
    IF MonthOf(first_date) > JulyMonth THEN YearOf(first_date)
    ELSE YearOf(first_date) - 1

\* Lines 140-143
ref_year(first_date) ==
    IF MonthOf(first_date) >= JulyMonth THEN YearOf(first_date)
    ELSE YearOf(first_date) - 1

\* Line 145
BudgetStartDate(first_date) == Timestamp(ref_year(first_date), JulyMonth, 1)

\* BudgetBreaks[j] is the largest number of days elapsed at which
\* 739 * 0.992 ^ (days / 365.25) is still at least 739 - (j - 1):
\* floor(365.25 * ln((740 - j) / 739) / ln(0.992)).
BudgetBreaks ==
    <<0, 61, 123, 184, 246, 308, 370, 432, 494, 557, 619, 681, 744, 807, 869,
      932, 995, 1058, 1121, 1184, 1247, 1310, 1374, 1437, 1501>>

\* floor(10 * 73.9 * 0.992 ^ (days / 365.25)) for 0 <= days <= 1501
BudgetTenths(days) ==
    InitialBudget
        - Cardinality({j \in 1 .. Len(BudgetBreaks) : BudgetBreaks[j] < days})

\* Lines 147-153: years_elapsed = days / 365.25 is the fraction
\* years_num / years_den; tenths is the floor of the value in tenths, and
\* exact is TRUE when the value is that many tenths exactly (only at 0 days).
calculate_budget_pr(date, epoch) ==
    LET days == date - epoch
    IN  [years_num |-> days * 100, years_den |-> YearLength,
         tenths |-> BudgetTenths(days), exact |-> days = 0]

\* Line 158: PR > Budget_PR as 0 or 1; a comparison with NaN is False.
\* For a PR of whole tenths, PR > budget iff PR > floor(budget).
above_budget(pr, budget) ==
    IF isna(pr) THEN 0 ELSE IF pr > budget.tenths THEN 1 ELSE 0

RECURSIVE SumSeq(_)
SumSeq(s) == IF s = <<>> THEN 0 ELSE Head(s) + SumSeq(Tail(s))

RECURSIVE YearsFrom(_, _, _)
\* Lines 172-178: the budget at every year start from the epoch to last_date
YearsFrom(year_start, last_date, epoch) ==
    IF year_start > last_date THEN <<>>
    ELSE <<calculate_budget_pr(year_start, epoch)>>
             \o YearsFrom(AddOneYear(year_start), last_date, epoch)

\* Line 161
Percentage(above, total) ==
    IF total > 0 THEN [num |-> above * 100, den |-> total]
    ELSE [num |-> 0, den |-> 1]

\* generate_graph(df, start, end), lines 104-178.  On no rows first_date is
\* NaT, ref_year is nan and pd.Timestamp('nan-07-01') raises ValueError
\* (line 145), after the filter and the moving average.
generate_graph(start, end) ==
    /\ pc = "returned"
    /\ start_date' = start
    /\ end_date' = end
    /\ \E plot \in {filter_rows(df, start, end)} :
       \E ma \in {rolling_mean([i \in 1 .. Len(plot) |-> plot[i].PR])} :
       \E first_date \in {MinDate(plot)}, last_date \in {MaxDate(plot)} :
           IF first_date = NaT
           THEN /\ pc' = "raised_graph"
                /\ df_plot' = <<>>
                /\ UNCHANGED <<budget_start_date, years, points_above_budget,
                               total_points, percentage_above>>
           ELSE \E epoch \in {BudgetStartDate(first_date)} :
                \E full \in
                    {[i \in 1 .. Len(plot) |->
                        LET b == calculate_budget_pr(plot[i].Date, epoch)
                        IN  [Date |-> plot[i].Date, GHI |-> plot[i].GHI,
                             PR |-> plot[i].PR, PR_MA_30 |-> ma[i],
                             Budget_PR |-> b,
                             Above_Budget |-> above_budget(plot[i].PR, b)]]} :
                \E above \in
                    {SumSeq([i \in 1 .. Len(full) |-> full[i].Above_Budget])} :
                    /\ pc' = "done"
                    /\ df_plot' = full
                    /\ budget_start_date' = epoch
                    /\ years' = YearsFrom(epoch, last_date, epoch)
                    /\ points_above_budget' = above
                    /\ total_points' = Len(full)
                    /\ percentage_above' = Percentage(above, Len(full))
    /\ UNCHANGED merge_vars
    /\ UNCHANGED df

\* main(), line 271: generate_graph(df) with no date bounds
MainGraph == generate_graph(None, None)

\* generate_graph called with optional start_date / end_date
BoundDates ==
    {None, Timestamp(2023, 7, 1), Timestamp(2024, 6, 30), Timestamp(2024, 7, 1)}

GenerateGraph == \E start \in BoundDates, end \in BoundDates :
                     generate_graph(start, end)

----------------------------------------------------------------------------
(* Specifications. *)

GraphIdle ==
    /\ start_date = None /\ end_date = None
    /\ df_plot = <<>>
    /\ budget_start_date = NaT
    /\ years = <<>>
    /\ points_above_budget = 0
    /\ total_points = 0
    /\ percentage_above = [num |-> 0, den |-> 1]

\* main(): preprocess_data on folders holding up to MaxFiles files each
\* (a missing folder lists no file), then generate_graph(df).
Init ==
    /\ pc = "pr_loop"
    /\ pr_left \in 0 .. MaxFiles
    /\ ghi_left \in 0 .. MaxFiles
    /\ cur = "closed" /\ rows_left = 0
    /\ data_dict = EmptyDict
    /\ errors = 0
    /\ last_pr = NoRows /\ last_ghi = NoRows
    /\ pr_supplied = {} /\ ghi_supplied = {}
    /\ df = <<>>
    /\ GraphIdle

Next ==
    \/ ReadPRFile
    \/ FoldPRRow
    \/ StartGHI
    \/ ReadGHIFile
    \/ FoldGHIRow
    \/ BuildTable
    \/ MainGraph

Spec == Init /\ [][Next]_vars

----------------------------------------------------------------------------
(* generate_graph called on a table, with optional date bounds. *)

\* Dates of the rows of a table
TableDates ==
    {Timestamp(2023, 6, 30), Timestamp(2023, 7, 1), Timestamp(2024, 2, 29),
     Timestamp(2024, 6, 30), Timestamp(2024, 7, 1), Timestamp(2025, 7, 1)}

\* PR of the rows of a table: missing, 73.0, 73.9
TablePR == {NaN, 730, 739}

TableRows == [Date : TableDates, GHI : {NaN}, PR : TablePR]

\* Tables as preprocess_data returns them from well-formed dates: ascending
ShortTables ==
    {t \in UNION {[1 .. n -> TableRows] : n \in 1 .. MaxTableRows} :
        \A i \in 1 .. Len(t) - 1 : t[i].Date < t[i + 1].Date}

\* PR of the rows of a long table: missing, 70.0, 74.5
LongPR == {NaN, 700, 745}

\* Long tables: one row a day from 2024-06-29, up to two rows of any PR and
\* then a run of one PR value
LongTables ==
    {[i \in 1 .. n |->
         [Date |-> Timestamp(2024, 6, 29) + i - 1, GHI |-> NaN,
          PR |-> IF i <= Len(head) THEN head[i] ELSE v]] :
       n \in Window - 1 .. MaxLongRows,
       head \in UNION {[1 .. h -> LongPR] : h \in 0 .. 2},
       v \in LongPR \ {NaN}}

InitGraph ==
    /\ pc = "returned"
    /\ df \in ShortTables \cup LongTables
    /\ pr_left = 0 /\ ghi_left = 0
    /\ cur = "closed" /\ rows_left = 0
    /\ data_dict = EmptyDict
    /\ errors = 0
    /\ last_pr = NoRows /\ last_ghi = NoRows
    /\ pr_supplied = {} /\ ghi_supplied = {}
    /\ GraphIdle

NextGraph == GenerateGraph

SpecGraph == InitGraph /\ [][NextGraph]_vars

----------------------------------------------------------------------------
(* The properties. *)

\* preprocess_data has returned its table
Returned == pc \in {"returned", "done", "raised_graph"}

\* Calendar days carried by a row of a file that was read without error
SeenDays ==
    {k.day : k \in {r \in RawDates : last_pr[r] # None \/ last_ghi[r] # None}}

\* C1: the merged table holds exactly one record for every calendar date seen
\* in a row of a successfully read file and none for any other date; the
\* record's PR (GHI) is present iff some PR (GHI) file supplied a value for
\* the date.
OneRecordPerDate ==
    Returned =>
        /\ \A i \in 1 .. Len(df) : df[i].Date \in SeenDays
        /\ \A d \in SeenDays :
            /\ Cardinality({i \in 1 .. Len(df) : df[i].Date = d}) = 1
            /\ \A i \in 1 .. Len(df) :
                df[i].Date = d =>
                    /\ ~isna(df[i].PR) <=> d \in pr_supplied
                    /\ ~isna(df[i].GHI) <=> d \in ghi_supplied

\* C2: the dates of the merged table are strictly ascending, whatever the
\* order and the textual form of the dates in the files.
StrictlyAscending ==
    Returned => \A i \in 1 .. Len(df) - 1 : df[i].Date < df[i + 1].Date

\* C3: the budget at the reference epoch is 73.9 exactly (exponent 0), and
\* at the next July 1 it is 73.9 * 0.992 (exponent exactly 1).
BudgetAtYearStarts ==
    pc = "done" =>
        /\ years[1].years_num = 0
        /\ years[1].tenths = InitialBudget /\ years[1].exact
        /\ Len(years) >= 2 => years[2].years_num = years[2].years_den

\* C4: a step in which a file raises an error logs it, leaves the mapping
\* (and what the other files have folded or will fold) as it is, and goes on
\* with the next file of the same loop.
FailingFileSkipped ==
    [][errors' # errors =>
          /\ errors' = errors + 1
          /\ data_dict' = data_dict
          /\ pc' = pc
          /\ cur' = "closed"
          /\ pr_left' + ghi_left' = pr_left + ghi_left - 1]_vars

\* C4 witness: a file has failed, the others were folded and the table built
FailedFileAndTable ==
    /\ pc = "returned" /\ errors > 0
    /\ Len(df) = Cardinality(MergeDays) + 1

\* C5: with no row at all the pipeline does not raise.
NeverRaises == pc \notin {"raised_preprocess", "raised_graph"}

BudgetIndependentOfBounds ==
    pc = "done" =>
        \A i \in 1 .. Len(df_plot) :
            LET b == calculate_budget_pr(df_plot[i].Date,
                                         BudgetStartDate(MinDate(df)))
            IN  /\ df_plot[i].Budget_PR = b
                /\ df_plot[i].Above_Budget = above_budget(df_plot[i].PR, b)

\* C8: for every raw date, the record's PR (GHI) is the value of the last PR
\* (GHI) row that carried it, an empty value included, and None when no such
\* row was folded; a raw date no row carried has no record.
LastWriteWins ==
    \A k \in RawDates :
        IF last_pr[k] = None /\ last_ghi[k] = None
        THEN k \notin DOMAIN data_dict
        ELSE /\ k \in DOMAIN data_dict
             /\ data_dict[k].Date = k
             /\ data_dict[k].PR = last_pr[k]
             /\ data_dict[k].GHI = last_ghi[k]

\* C8 witness: the last PR row of a date was empty after a row with a value,
\* and a GHI row of the date was folded too
EmptyOverwroteValue ==
    LET k == [day |-> Timestamp(2024, 6, 30), form |-> "iso"]
    IN  /\ k \in DOMAIN data_dict
        /\ data_dict[k].PR = NaN
        /\ k.day \in pr_supplied
        /\ data_dict[k].GHI = 30

RECURSIVE SumPresent(_, _, _)
\* The sum of the present PR values of rows lo .. hi of the rendered table
SumPresent(t, lo, hi) ==
    IF lo > hi THEN 0
    ELSE (IF isna(t[hi].PR) THEN 0 ELSE t[hi].PR) + SumPresent(t, lo, hi - 1)

CountPresent(t, lo, hi) == Cardinality({j \in lo .. hi : ~isna(t[j].PR)})

\* C9: the moving average of rendered row i is the mean of the PR values of
\* rows max(first, i - 29) .. i (undefined when none of them has a PR); at
\* the first row it is that row's PR, and at the end of a run of 30 equal PR
\* values it is that value.
MovingAverageIsWindowMean ==
    pc = "done" =>
        \A i \in 1 .. Len(df_plot) :
            LET lo == IF i - 29 < 1 THEN 1 ELSE i - 29
                n == CountPresent(df_plot, lo, i)
                ma == df_plot[i].PR_MA_30
            IN  /\ ma.den = n
                /\ n > 0 => ma.num = SumPresent(df_plot, lo, i)
                /\ (i = 1 /\ ~isna(df_plot[1].PR)) => ma.num = df_plot[1].PR * ma.den
                /\ (i = 1 /\ isna(df_plot[1].PR)) => ma.den = 0
                /\ (/\ i >= 30
                    /\ ~isna(df_plot[i].PR)
                    /\ \A j \in i - 29 .. i : df_plot[j].PR = df_plot[i].PR)
                       => ma.num = df_plot[i].PR * ma.den

\* C9 witness: a row whose window has left behind a row with another PR
WindowDroppedARow ==
    /\ pc = "done"
    /\ \E i \in 1 .. Len(df_plot) :
        /\ i > 30
        /\ ~isna(df_plot[i - 30].PR)
        /\ ~isna(df_plot[i].PR)
        /\ df_plot[i - 30].PR # df_plot[i].PR

\* The rendered rows whose PR is present and above the budget of their date
RowsAbove ==
    {i \in 1 .. Len(df_plot) :
        /\ ~isna(df_plot[i].PR)
        /\ df_plot[i].PR > df_plot[i].Budget_PR.tenths}

\* The statistics of the rows that generate_graph has rendered
AboveBudgetOnRows ==
    pc = "done" =>
        /\ points_above_budget = Cardinality(RowsAbove)
        /\ 0 <= points_above_budget /\ points_above_budget <= total_points
        /\ total_points = Len(df_plot) /\ total_points > 0
        /\ percentage_above.num = points_above_budget * 100
        /\ percentage_above.den = total_points

\* C10: generate_graph reports the number of rendered rows whose PR is
\* present and above the budget of their date, between 0 and the number of
\* rows, and its percentage of the rows, 0 when there is no row.
AboveBudgetReported ==
    /\ AboveBudgetOnRows
    /\ (pc \in {"done", "raised_graph"}
            /\ filter_rows(df, start_date, end_date) = <<>>)
           => /\ pc = "done"
              /\ percentage_above.num = 0

====
